---- MODULE Spec2Model ----
(***************************************************************************)
(* Engram memory lifecycle: the relational Memory repository, the vector   *)
(* index, ranked retrieval, consolidation, forgetting and the maintenance  *)
(* job queue.                                                              *)
(*                                                                         *)
(* Units: similarity, importance and the ranking weights are hundredths    *)
(* (0.97 = 97); recency boost and decay penalty are ten-thousandths and    *)
(* composite scores millionths; time is counted in half days so that      *)
(* "30 days and a bit" is representable.                                   *)
(***************************************************************************)
EXTENDS Integers, Sequences, FiniteSets, TLC

VARIABLES
    mem,        \* the memories table: id -> row
    vindex,     \* the vector index: id -> vector and upsert-time metadata
    clk,        \* position of the clock in TimePoints
    last,       \* the last store or engine call and what it returned
    rank,       \* a ranking request on a given index answer, and its result
    jobs,       \* the jobs table: job id -> row
    queue,      \* the RQ maintenance queue
    running     \* worker -> the job it is processing and where it is in it

vars == <<mem, vindex, clk, last, rank, jobs, queue, running>>

storeVars == <<mem, vindex, clk, last>>

jobVars == <<jobs, queue, running>>

----------------------------------------------------------------------------
(* Bounds of the model *)

\* memories upserted in the lifecycle specification
MaxMem == 2

\* memories upserted before a consolidation run
MaxCons == 4

\* hits in an index answer handed to ranking
MaxHits == 3

\* maintenance jobs enqueued
MaxJobs == 3

----------------------------------------------------------------------------
(* Configuration defaults (engram/utils/config.py) *)

consolidation_threshold == 97
similarity_threshold == 92
importance_threshold == 20
forgetting_days == 30
memory_retention_days == 365
default_max_memories == 6
default_importance == 50
FindSimilarTopK == 50
TicksPerDay == 2

----------------------------------------------------------------------------
(* Input domains *)

\* (tenant_id, user_id) pairs: two users of one tenant
Namespaces == {<<1, 1>>, <<1, 2>>}

\* embedding classes and the similarity the vector index reports for them
Vecs == 1..3

\* instants (half days) the clock visits
TimePoints == <<0, 731>>

\* memory ids in generation order; ULIDs are fixed-length strings that sort
\* lexicographically by creation time
IdPool == <<<<0, 1>>, <<0, 2>>, <<1, 0>>, <<1, 1>>, <<1, 2>>>>

----------------------------------------------------------------------------
(* Generic helpers *)

Range(s) == {s[i] : i \in DOMAIN s}

Min(a, b) == IF a < b THEN a ELSE b

Max(a, b) == IF a > b THEN a ELSE b

\* s[:n]
Take(s, n) == SubSeq(s, 1, Min(n, Len(s)))

\* Python str comparison a < b on equal-alphabet strings
RECURSIVE LexLess(_, _)
LexLess(a, b) ==
    IF Len(b) = 0 THEN FALSE
    ELSE IF Len(a) = 0 THEN TRUE
    ELSE IF a[1] < b[1] THEN TRUE
    ELSE IF a[1] > b[1] THEN FALSE
    ELSE LexLess(Tail(a), Tail(b))

\* sorted(ids): ascending, stable
RECURSIVE InsertById(_, _)
InsertById(x, s) ==
    IF s = <<>> THEN <<x>>
    ELSE IF LexLess(x, s[1]) THEN <<x>> \o s
    ELSE <<s[1]>> \o InsertById(x, Tail(s))

RECURSIVE SortIds(_)
SortIds(s) ==
    IF s = <<>> THEN <<>>
    ELSE InsertById(s[Len(s)], SortIds(SubSeq(s, 1, Len(s) - 1)))

\* the members of a finite set of integers in ascending order
RECURSIVE SortIdx(_)
SortIdx(S) ==
    IF S = {} THEN <<>>
    ELSE LET m == CHOOSE x \in S : \A y \in S : x <= y
         IN  <<m>> \o SortIdx(S \ {m})

\* the members of a finite set in some fixed order
RECURSIVE SetToSeq(_)
SetToSeq(S) ==
    IF S = {} THEN <<>>
    ELSE LET m == CHOOSE x \in S : TRUE
         IN  <<m>> \o SetToSeq(S \ {m})

\* the subsequence of s whose elements satisfy membership in S
RECURSIVE FilterIn(_, _)
FilterIn(s, S) ==
    IF s = <<>> THEN <<>>
    ELSE IF s[1] \in S THEN <<s[1]>> \o FilterIn(Tail(s), S)
    ELSE FilterIn(Tail(s), S)

----------------------------------------------------------------------------
(* Vector index (engram/vectordb): one collection per namespace; every     *)
(* vector carries the metadata it was upserted with.                       *)

NoneInt == -1

\* score the index reports for two embedding classes: 1 - cosine distance,
\* clamped to [0, 1]
Sim(v, w) ==
    IF v = w THEN 100
    ELSE IF {v, w} = {1, 2} THEN 98
    ELSE IF {v, w} = {2, 3} THEN 98
    ELSE IF {v, w} = {1, 3} THEN 93
    ELSE IF {v, w} \subseteq {4, 5, 6} THEN 98
    ELSE 40

\* hits sorted nearest first; equally near hits keep the index's own order
RECURSIVE InsertByRaw(_, _)
InsertByRaw(x, s) ==
    IF s = <<>> THEN <<x>>
    ELSE IF x.score > s[1].score THEN <<x>> \o s
    ELSE <<s[1]>> \o InsertByRaw(x, Tail(s))

RECURSIVE NearestFirst(_)
NearestFirst(s) ==
    IF s = <<>> THEN <<>>
    ELSE InsertByRaw(s[Len(s)], NearestFirst(SubSeq(s, 1, Len(s) - 1)))

\* VectorIndex.query for one query vector: the top_k nearest vectors of the
\* namespace's collection as VectorHit(id, score, metadata).  order is the
\* collection's internal order of its ids, which breaks ties.
IndexHit(vx, id, q) ==
    [id |-> id, score |-> Sim(q, vx[id].vec),
     importance |-> vx[id].importance,
     last_accessed_at |-> vx[id].last_accessed_at,
     created_at |-> vx[id].created_at,
     decay_weight |-> NoneInt]

Collection(vx, tenant, user) ==
    {id \in DOMAIN vx : vx[id].tenant = tenant /\ vx[id].user = user}

Query(vx, order, q, top_k, tenant, user) ==
    LET ids == FilterIn(order, Collection(vx, tenant, user))
        all == [i \in 1..Len(ids) |-> IndexHit(vx, ids[i], q)]
    IN  Take(NearestFirst(all), top_k)

----------------------------------------------------------------------------
(* Retrieval engine (engram/core/retrieval.py) *)

rank_alpha == 70
rank_beta == 20
rank_gamma == 15
rank_delta == 5
recency_tau_days == 14

\* exp(-1 / (TicksPerDay * recency_tau_days)) and exp(-1), in ten-thousandths
ExpStep == 9649

ExpOne == 3679

\* exp(-h / (TicksPerDay * tau)) in ten-thousandths, h >= 0 half days:
\* whole multiples of tau first, then the remaining half days; from ten
\* multiples of tau on the value is below one ten-thousandth
RECURSIVE ExpDecay(_)
ExpDecay(h) ==
    IF h = 0 THEN 10000
    ELSE IF h >= 10 * TicksPerDay * recency_tau_days THEN 0
    ELSE IF h >= TicksPerDay * recency_tau_days
         THEN (ExpDecay(h - TicksPerDay * recency_tau_days) * ExpOne) \div 10000
         ELSE (ExpDecay(h - 1) * ExpStep) \div 10000

Clamp(x, lo, hi) == Max(lo, Min(hi, x))

\* variant: the boost grows with the time since the last access
RecencyBoostInverted(last_accessed, created_at, now) ==
    LET ts == IF last_accessed # NoneInt THEN last_accessed ELSE created_at
    IN  IF ts = NoneInt THEN 0
        ELSE IF now - ts < 0 THEN 0
        ELSE Clamp(10000 - ExpDecay(now - ts), 0, 10000)

\* _calculate_recency_boost, in ten-thousandths
RecencyBoost(last_accessed, created_at, now) ==
    LET ts == IF last_accessed # NoneInt THEN last_accessed ELSE created_at
    IN  IF ts = NoneInt THEN 0
        ELSE IF now - ts < 0 THEN 10000
        ELSE Clamp(ExpDecay(now - ts), 0, 10000)

\* _calculate_decay_penalty, in ten-thousandths
DecayPenalty(created_at, decay_weight, now) ==
    IF created_at = NoneInt THEN 0
    ELSE Clamp(((now - created_at) * (100 - decay_weight) * 100)
                    \div (365 * TicksPerDay), 0, 10000)

\* composite score of one hit, in millionths, before clamping
CompositeScore(hit, now) ==
    LET importance == IF hit.importance = NoneInt THEN 50 ELSE hit.importance
        decay_weight == IF hit.decay_weight = NoneInt THEN 100 ELSE hit.decay_weight
    IN  rank_alpha * (hit.score * 100)
        + rank_beta * RecencyBoost(hit.last_accessed_at, hit.created_at, now)
        + rank_gamma * (importance * 100)
        - rank_delta * DecayPenalty(hit.created_at, decay_weight, now)

\* variant: the composite score is stored as computed
ScoredHitUnclamped(hit, now) ==
    [id |-> hit.id,
     score |-> CompositeScore(hit, now),
     original_score |-> hit.score,
     importance |-> hit.importance,
     last_accessed_at |-> hit.last_accessed_at,
     created_at |-> hit.created_at,
     decay_weight |-> hit.decay_weight]

\* the VectorHit _rerank_hits builds for one hit
ScoredHit(hit, now) ==
    [id |-> hit.id,
     score |-> Clamp(CompositeScore(hit, now), 0, 1000000),
     original_score |-> hit.score,
     importance |-> hit.importance,
     last_accessed_at |-> hit.last_accessed_at,
     created_at |-> hit.created_at,
     decay_weight |-> hit.decay_weight]

\* variant: a hit is placed before the hits of equal score
RECURSIVE InsertByScoreFirst(_, _)
InsertByScoreFirst(x, s) ==
    IF s = <<>> THEN <<x>>
    ELSE IF x.score >= s[1].score THEN <<x>> \o s
    ELSE <<s[1]>> \o InsertByScoreFirst(x, Tail(s))

\* scored_hits.sort(key=score, reverse=True): stable, highest first
RECURSIVE InsertByScore(_, _)
InsertByScore(x, s) ==
    IF s = <<>> THEN <<x>>
    ELSE IF x.score > s[1].score THEN <<x>> \o s
    ELSE <<s[1]>> \o InsertByScore(x, Tail(s))

RECURSIVE SortByScore(_)
SortByScore(s) ==
    IF s = <<>> THEN <<>>
    ELSE InsertByScore(s[Len(s)], SortByScore(SubSeq(s, 1, Len(s) - 1)))

\* RetrievalEngine._rerank_hits
RerankHits(hits, now) ==
    SortByScore([i \in 1..Len(hits) |-> ScoredHit(hits[i], now)])

\* number of candidates retrieve_memories asks the index for
FetchCount(top_k) == top_k * 2

\* top_k = top_k or settings.default_max_memories
EffectiveTopK(top_k) == IF top_k = NoneInt \/ top_k = 0 THEN default_max_memories ELSE top_k

\* variant: the re-ranked hits are not cut to top_k
RankHitsUncut(hits, top_k, now) ==
    IF hits = <<>> THEN <<>>
    ELSE RerankHits(hits, now)

\* RetrievalEngine.retrieve_memories on the hits the index answered with
RankHits(hits, top_k, now) ==
    IF hits = <<>> THEN <<>>
    ELSE Take(RerankHits(hits, now), EffectiveTopK(top_k))

\* RetrievalEngine.retrieve_memories
RetrieveRanked(vx, order, q, tenant, user, top_k, now) ==
    RankHits(Query(vx, order, q, FetchCount(EffectiveTopK(top_k)), tenant, user),
             top_k, now)

\* RetrievalEngine.find_similar_memories
FindSimilar(vx, order, q, tenant, user, threshold, exclude_id) ==
    LET t == IF threshold = NoneInt \/ threshold = 0 THEN similarity_threshold ELSE threshold
        hits == Query(vx, order, q, FindSimilarTopK, tenant, user)
        keep == {i \in 1..Len(hits) : hits[i].score >= t /\ hits[i].id # exclude_id}
        idx == SortIdx(keep)
    IN  [i \in 1..Len(idx) |-> hits[idx[i]]]

----------------------------------------------------------------------------
(* Consolidation engine (engram/core/consolidation.py) *)

\* variant: a hit joins even when an earlier cluster holds it
RECURSIVE JoinHitsProcessed(_, _, _)
JoinHitsProcessed(hits, candSet, processed) ==
    IF hits = <<>> THEN <<>>
    ELSE IF hits[1].id \in candSet
         THEN <<hits[1].id>> \o JoinHitsProcessed(Tail(hits), candSet, processed)
         ELSE JoinHitsProcessed(Tail(hits), candSet, processed)

\* the ids of hits, in hit order, that join the seed's cluster
RECURSIVE JoinHits(_, _, _)
JoinHits(hits, candSet, processed) ==
    IF hits = <<>> THEN <<>>
    ELSE IF hits[1].id \in candSet /\ hits[1].id \notin processed
         THEN <<hits[1].id>> \o JoinHits(Tail(hits), candSet, processed \cup {hits[1].id})
         ELSE JoinHits(Tail(hits), candSet, processed)

\* the loop of _find_memory_clusters from candidate i on.  cand is the
\* memory_vectors dict in iteration order, vecOf its values.
RECURSIVE ClusterWalk(_, _, _, _, _, _, _, _)
ClusterWalk(cand, vecOf, vx, order, tenant, user, i, processed) ==
    IF i > Len(cand) THEN <<>>
    ELSE IF cand[i] \in processed
         THEN ClusterWalk(cand, vecOf, vx, order, tenant, user, i + 1, processed)
    ELSE LET similar_hits == FindSimilar(vx, order, vecOf[cand[i]], tenant, user,
                                         consolidation_threshold, cand[i])
         IN  IF similar_hits = <<>>
             THEN ClusterWalk(cand, vecOf, vx, order, tenant, user, i + 1, processed)
             ELSE LET joined == JoinHits(similar_hits, Range(cand), processed \cup {cand[i]})
                      cluster == <<cand[i]>> \o joined
                      rest == ClusterWalk(cand, vecOf, vx, order, tenant, user, i + 1,
                                          processed \cup Range(cluster))
                  IN  IF Len(cluster) > 1 THEN <<cluster>> \o rest ELSE rest

\* ConsolidationEngine._find_memory_clusters
FindMemoryClusters(cand, vecOf, vx, order, tenant, user) ==
    ClusterWalk(cand, vecOf, vx, order, tenant, user, 1, {})

\* the candidate positions at which the loop of _find_memory_clusters calls
\* find_similar_memories, from candidate i on
RECURSIVE LookupsMade(_, _, _, _, _, _, _, _)
LookupsMade(cand, vecOf, vx, order, tenant, user, i, processed) ==
    IF i > Len(cand) THEN {}
    ELSE IF cand[i] \in processed
         THEN LookupsMade(cand, vecOf, vx, order, tenant, user, i + 1, processed)
    ELSE LET similar_hits == FindSimilar(vx, order, vecOf[cand[i]], tenant, user,
                                         consolidation_threshold, cand[i])
         IN  IF similar_hits = <<>>
             THEN {i} \cup LookupsMade(cand, vecOf, vx, order, tenant, user, i + 1, processed)
             ELSE LET joined == JoinHits(similar_hits, Range(cand), processed \cup {cand[i]})
                  IN  {i} \cup LookupsMade(cand, vecOf, vx, order, tenant, user, i + 1,
                                           processed \cup {cand[i]} \cup Range(joined))

\* variant: the cluster is left in discovery order
SortClusterByAgeUnsorted(cluster) == cluster

\* ConsolidationEngine._sort_cluster_by_age
SortClusterByAge(cluster) == SortIds(cluster)

\* ConsolidationEngine._merge_memory_cluster on a sorted cluster;
\* _merge_memory_content returns its placeholder and writes nothing
MergeMemoryCluster(cluster) ==
    [merged |-> <<cluster>>,
     deleted |-> Tail(cluster),
     updated |-> <<cluster[1]>>]

EmptyResult == [merged |-> <<>>, deleted |-> <<>>, updated |-> <<>>]

\* a loop that merges in a dry run too
RECURSIVE MergeClustersDryMerges(_, _, _)
MergeClustersDryMerges(clusters, dry_run, acc) ==
    IF clusters = <<>> THEN acc
    ELSE IF Len(clusters[1]) < 2 THEN MergeClustersDryMerges(Tail(clusters), dry_run, acc)
    ELSE LET r == MergeMemoryCluster(SortClusterByAge(clusters[1]))
         IN  MergeClustersDryMerges(Tail(clusters), dry_run,
                                    [merged |-> acc.merged \o r.merged,
                                     deleted |-> acc.deleted \o r.deleted,
                                     updated |-> acc.updated \o r.updated])

\* the loop of consolidate_memories over the discovered clusters
RECURSIVE MergeClusters(_, _, _)
MergeClusters(clusters, dry_run, acc) ==
    IF clusters = <<>> THEN acc
    ELSE IF Len(clusters[1]) < 2 THEN MergeClusters(Tail(clusters), dry_run, acc)
    ELSE LET sorted_cluster == SortClusterByAge(clusters[1])
         IN  IF dry_run
             THEN MergeClusters(Tail(clusters), dry_run,
                                [acc EXCEPT !.merged = @ \o <<sorted_cluster>>])
             ELSE LET r == MergeMemoryCluster(sorted_cluster)
                  IN  MergeClusters(Tail(clusters), dry_run,
                                    [merged |-> acc.merged \o r.merged,
                                     deleted |-> acc.deleted \o r.deleted,
                                     updated |-> acc.updated \o r.updated])

\* a loop that a failed merge ends
RECURSIVE MergeClustersFaultyAbort(_, _, _, _)
MergeClustersFaultyAbort(clusters, dry_run, fail_merge, acc) ==
    IF clusters = <<>> THEN acc
    ELSE IF Len(clusters[1]) < 2
         THEN MergeClustersFaultyAbort(Tail(clusters), dry_run, fail_merge, acc)
    ELSE LET sorted_cluster == SortClusterByAge(clusters[1])
         IN  IF dry_run
             THEN MergeClustersFaultyAbort(Tail(clusters), dry_run, fail_merge,
                                      [acc EXCEPT !.merged = @ \o <<sorted_cluster>>])
             ELSE IF fail_merge = 1
             THEN acc
             ELSE LET r == MergeMemoryCluster(sorted_cluster)
                  IN  MergeClustersFaultyAbort(Tail(clusters), dry_run,
                                          IF fail_merge = 0 THEN 0 ELSE fail_merge - 1,
                                          [merged |-> acc.merged \o r.merged,
                                           deleted |-> acc.deleted \o r.deleted,
                                           updated |-> acc.updated \o r.updated])

\* the loop of consolidate_memories when _merge_memory_content fails for the
\* fail_merge-th cluster it is called for: _merge_memory_cluster returns
\* None and the cluster is skipped
RECURSIVE MergeClustersFaulty(_, _, _, _)
MergeClustersFaulty(clusters, dry_run, fail_merge, acc) ==
    IF clusters = <<>> THEN acc
    ELSE IF Len(clusters[1]) < 2
         THEN MergeClustersFaulty(Tail(clusters), dry_run, fail_merge, acc)
    ELSE LET sorted_cluster == SortClusterByAge(clusters[1])
         IN  IF dry_run
             THEN MergeClustersFaulty(Tail(clusters), dry_run, fail_merge,
                                      [acc EXCEPT !.merged = @ \o <<sorted_cluster>>])
             ELSE IF fail_merge = 1
             THEN MergeClustersFaulty(Tail(clusters), dry_run, 0, acc)
             ELSE LET r == MergeMemoryCluster(sorted_cluster)
                  IN  MergeClustersFaulty(Tail(clusters), dry_run,
                                          IF fail_merge = 0 THEN 0 ELSE fail_merge - 1,
                                          [merged |-> acc.merged \o r.merged,
                                           deleted |-> acc.deleted \o r.deleted,
                                           updated |-> acc.updated \o r.updated])

\* ConsolidationEngine.consolidate_memories: the result it returns
ConsolidateMemories(cand, vecOf, vx, order, tenant, user, dry_run) ==
    IF cand = <<>> THEN EmptyResult
    ELSE MergeClusters(FindMemoryClusters(cand, vecOf, vx, order, tenant, user),
                       dry_run, EmptyResult)

----------------------------------------------------------------------------
(* Forgetting engine (engram/core/forgetting.py) *)

\* timedelta(days=d) in half days
Days(d) == d * TicksPerDay

\* variant: low importance alone or staleness alone selects a row
ForgetUserSelectEither(m, tenant, user, now) ==
    {id \in DOMAIN m :
        /\ m[id].tenant = tenant
        /\ m[id].active
        /\ \/ m[id].importance < importance_threshold
           \/ m[id].last_accessed_at < now - Days(forgetting_days)
        /\ (user # NoneInt /\ user # 0 => m[id].user = user)}

\* variant: the low-value sweep selects inactive rows too
ForgetUserSelectInactive(m, tenant, user, now) ==
    {id \in DOMAIN m :
        /\ m[id].tenant = tenant
        /\ m[id].importance < importance_threshold
        /\ m[id].last_accessed_at < now - Days(forgetting_days)
        /\ (user # NoneInt /\ user # 0 => m[id].user = user)}

\* the rows forget_user_memories selects; user = NoneInt sweeps the tenant
ForgetUserSelect(m, tenant, user, now) ==
    {id \in DOMAIN m :
        /\ m[id].tenant = tenant
        /\ m[id].active
        /\ m[id].importance < importance_threshold
        /\ m[id].last_accessed_at < now - Days(forgetting_days)
        /\ (user # NoneInt /\ user # 0 => m[id].user = user)}

\* variant: the retention sweep spares what the low-value sweep would spare
ForgetOldSelectLowValue(m, tenant, retention_days, now) ==
    LET days == IF retention_days = NoneInt THEN memory_retention_days ELSE retention_days
    IN  {id \in DOMAIN m :
            /\ m[id].tenant = tenant
            /\ m[id].active
            /\ m[id].importance < importance_threshold
            /\ m[id].last_accessed_at < now - Days(forgetting_days)
            /\ m[id].created_at < now - Days(days)}

\* the rows forget_old_memories selects
ForgetOldSelect(m, tenant, retention_days, now) ==
    LET days == IF retention_days = NoneInt THEN memory_retention_days ELSE retention_days
    IN  {id \in DOMAIN m :
            /\ m[id].tenant = tenant
            /\ m[id].active
            /\ m[id].created_at < now - Days(days)}

\* ConsolidationEngine.identify_forgotten_memories (consolidation.py): of the
\* memories handed in, those with importance below the threshold whose
\* (current_time - last_accessed).days, a whole number of days, is above
\* forgetting_days
IdentifyForgottenSelect(m, ids, now) ==
    {id \in ids :
        /\ m[id].importance < importance_threshold
        /\ m[id].last_accessed_at # NoneInt
        /\ (now - m[id].last_accessed_at) \div TicksPerDay > forgetting_days}

\* variant: the sweep also stamps last_accessed_at
DeactivateTouch(m, ids, now) ==
    [id \in DOMAIN m |->
        IF id \in ids THEN [m[id] EXCEPT !.active = FALSE, !.updated_at = now,
                                         !.last_accessed_at = now]
        ELSE m[id]]

\* session.query(Memory).filter(Memory.id.in_(ids)).update({"active": False,
\* "updated_at": utcnow()})
Deactivate(m, ids, now) ==
    [id \in DOMAIN m |->
        IF id \in ids THEN [m[id] EXCEPT !.active = FALSE, !.updated_at = now]
        ELSE m[id]]

----------------------------------------------------------------------------
(* Memory store (engram/core/memory_store.py) and the state machine *)

Now == TimePoints[clk]

Tenants == {ns[1] : ns \in Namespaces}

Users == {ns[2] : ns \in Namespaces}

\* what the last operation was called with and what it returned
Idle ==
    [op |-> "none", cand |-> <<>>, dry_run |-> FALSE,
     repeat |-> FALSE, merged |-> <<>>, deleted |-> <<>>, updated |-> <<>>,
     out |-> <<>>, fault |-> <<"none", 0>>, error |-> FALSE, args |-> <<>>,
     queried |-> FALSE]

\* MemoryStore.upsert_memories with one text: a new row and its vector
NewMemory(tenant, user, importance, vec, now) ==
    [tenant |-> tenant, user |-> user, vec |-> vec, importance |-> importance,
     active |-> TRUE, created_at |-> now, last_accessed_at |-> now,
     updated_at |-> now]

NewVector(tenant, user, importance, vec, now) ==
    [tenant |-> tenant, user |-> user, vec |-> vec, importance |-> importance,
     created_at |-> now, last_accessed_at |-> now]

Put(f, k, v) == [x \in DOMAIN f \cup {k} |-> IF x = k THEN v ELSE f[x]]

Drop(f, K) == [x \in DOMAIN f \ K |-> f[x]]

UpsertMemories(tenant, user, importance, vec) ==
    /\ Cardinality(DOMAIN mem) < Len(IdPool)
    /\ LET memory_id == IdPool[Cardinality(DOMAIN mem) + 1]
       IN  /\ mem' = Put(mem, memory_id, NewMemory(tenant, user, importance, vec, Now))
           /\ vindex' = Put(vindex, memory_id, NewVector(tenant, user, importance, vec, Now))
           /\ last' = [Idle EXCEPT !.op = "upsert",
                                   !.out = <<memory_id>>]
    /\ UNCHANGED clk

\* MemoryStore.upsert_memories when a collaborator raises: the repository in
\* add_all or commit, before anything is stored, or the vector index in
\* upsert, after the rows were committed; the rollback in the handler then
\* finds nothing to undo
UpsertMemoriesFault(tenant, user, importance, vec, fault) ==
    /\ fault \in {"repository", "index"}
    /\ Cardinality(DOMAIN mem) < Len(IdPool)
    /\ LET memory_id == IdPool[Cardinality(DOMAIN mem) + 1]
       IN  /\ mem' = IF fault = "index"
                     THEN Put(mem, memory_id, NewMemory(tenant, user, importance, vec, Now))
                     ELSE mem
           /\ last' = [Idle EXCEPT !.op = "upsert",
                                   !.fault = <<fault, 0>>,
                                   !.error = TRUE]
    /\ UNCHANGED <<vindex, clk>>

\* variant: every active row of the namespace is loaded
ActiveRowsOfNamespace(m, ids, tenant, user) ==
    {id \in DOMAIN m : m[id].tenant = tenant /\ m[id].user = user /\ m[id].active}

\* the rows MemoryStore.retrieve_memories loads for the ranked hits
ActiveRows(m, ids, tenant, user) ==
    {id \in DOMAIN m : id \in ids /\ m[id].tenant = tenant /\ m[id].user = user
                       /\ m[id].active}

\* memory.last_accessed_at = now, committed; updated_at follows by onupdate
Touch(m, ids, now) ==
    [id \in DOMAIN m |->
        IF id \in ids THEN [m[id] EXCEPT !.last_accessed_at = now, !.updated_at = now]
        ELSE m[id]]

IdsOf(hits) == [i \in 1..Len(hits) |-> hits[i].id]

\* MemoryStore.retrieve_memories
RetrieveMemories(tenant, user, q, top_k, order) ==
    LET hits == RetrieveRanked(vindex, order, q, tenant, user, top_k, Now)
        rows == ActiveRows(mem, Range(IdsOf(hits)), tenant, user)
        results == FilterIn(IdsOf(hits), rows)
    IN  /\ mem' = Touch(mem, rows, Now)
        /\ last' = [Idle EXCEPT !.op = "retrieve",
                                !.out = results]
        /\ UNCHANGED <<vindex, clk>>

\* MemoryStore.delete_memory
DeleteMemory(memory_id, tenant, user) ==
    LET found == ActiveRows(mem, {memory_id}, tenant, user)
    IN  /\ mem' = Deactivate(mem, found, Now)
        /\ vindex' = Drop(vindex, found)
        /\ last' = [Idle EXCEPT !.op = "delete",
                                !.out = FilterIn(<<memory_id>>, found)]
        /\ UNCHANGED clk

\* ConsolidationEngine.consolidate_memories over candidates of the namespace
Consolidate(tenant, user, cand, dry_run, order) ==
    LET vecOf == [id \in Range(cand) |-> mem[id].vec]
        r == ConsolidateMemories(cand, vecOf, vindex, order, tenant, user, dry_run)
    IN  /\ last' = [Idle EXCEPT !.op = "consolidate",
                                !.cand = cand, !.dry_run = dry_run,
                                !.repeat = /\ last.op = "consolidate"
                                           /\ ~last.dry_run /\ ~dry_run
                                           /\ last.cand = cand,
                                !.merged = r.merged, !.deleted = r.deleted,
                                !.updated = r.updated]
        /\ UNCHANGED <<mem, vindex, clk>>

\* ForgettingEngine.forget_user_memories
ForgetUserMemories(tenant, user) ==
    LET memory_ids == ForgetUserSelect(mem, tenant, user, Now)
    IN  /\ mem' = Deactivate(mem, memory_ids, Now)
        /\ last' = [Idle EXCEPT !.op = "forget_user",
                                !.args = <<tenant, user>>,
                                !.repeat = /\ last.op = "forget_user"
                                           /\ last.args = <<tenant, user>>,
                                !.out = SortIds(SetToSeq(memory_ids))]
        /\ UNCHANGED <<vindex, clk>>

\* variant: the retention sweep removes the rows it selects
ForgetOldMemoriesPurge(tenant, user, retention_days) ==
    LET memory_ids == ForgetOldSelect(mem, tenant, retention_days, Now)
    IN  /\ mem' = Drop(mem, memory_ids)
        /\ last' = [Idle EXCEPT !.op = "forget_old",
                                !.out = SortIds(SetToSeq(memory_ids))]
        /\ UNCHANGED <<vindex, clk>>

\* ForgettingEngine.forget_old_memories, called on behalf of (tenant, user);
\* the function takes the tenant only
ForgetOldMemories(tenant, user, retention_days) ==
    LET memory_ids == ForgetOldSelect(mem, tenant, retention_days, Now)
    IN  /\ mem' = Deactivate(mem, memory_ids, Now)
        /\ last' = [Idle EXCEPT !.op = "forget_old",
                                !.args = <<tenant, retention_days>>,
                                !.repeat = /\ last.op = "forget_old"
                                           /\ last.args = <<tenant, retention_days>>,
                                !.out = SortIds(SetToSeq(memory_ids))]
        /\ UNCHANGED <<vindex, clk>>

\* ForgettingEngine.analyze_memory_health: the counts are queried, then the
\* average importance is asked for through sqlalchemy's func, a name the
\* module does not import: NameError, logged and re-raised.  Nothing is
\* written and no analysis is returned.
AnalyzeMemoryHealth(tenant, user) ==
    /\ last' = [Idle EXCEPT !.op = "analyze",
                            !.args = <<tenant, user>>,
                            !.error = TRUE]
    /\ UNCHANGED <<mem, vindex, clk>>

\* time passes
Tick ==
    /\ clk < Len(TimePoints)
    /\ clk' = clk + 1
    /\ last' = [Idle EXCEPT !.op = "tick"]
    /\ UNCHANGED <<mem, vindex>>

----------------------------------------------------------------------------
(* Ranking on a given index answer (RetrievalEngine.retrieve_memories) *)

RankIdle ==
    [pool |-> <<>>, top_k |-> NoneInt, fetch |-> 0, received |-> <<>>,
     result |-> <<>>, done |-> FALSE]

\* metadata profiles of indexed vectors, as the index reports them for a query
HitProfiles ==
    {[score |-> 100, importance |-> 10, last_accessed_at |-> 0, created_at |-> 0,
      decay_weight |-> NoneInt],
     [score |-> 98, importance |-> 50, last_accessed_at |-> 731, created_at |-> 0,
      decay_weight |-> NoneInt],
     [score |-> 98, importance |-> 10, last_accessed_at |-> 0, created_at |-> 0,
      decay_weight |-> 50],
     [score |-> 93, importance |-> 90, last_accessed_at |-> 731, created_at |-> 731,
      decay_weight |-> NoneInt],
     [score |-> 40, importance |-> NoneInt, last_accessed_at |-> NoneInt,
      created_at |-> NoneInt, decay_weight |-> NoneInt],
     \* the same vector accessed today and a day ago
     [score |-> 100, importance |-> 100, last_accessed_at |-> 731, created_at |-> 0,
      decay_weight |-> NoneInt],
     [score |-> 100, importance |-> 100, last_accessed_at |-> 729, created_at |-> 0,
      decay_weight |-> NoneInt],
     [score |-> 98, importance |-> 10, last_accessed_at |-> 731, created_at |-> 0,
      decay_weight |-> 50],
     \* values beyond the legal ranges, timestamps 1000 days before now
     [score |-> 150, importance |-> 200, last_accessed_at |-> 731, created_at |-> 731,
      decay_weight |-> 200],
     [score |-> -50, importance |-> -100, last_accessed_at |-> -1269,
      created_at |-> -1269, decay_weight |-> -100]}

\* the collection as the index would list it for the query: nearest first
Pools ==
    {[i \in 1..Len(ps) |-> [id |-> <<0, i>>] @@ ps[i]] :
        ps \in {s \in UNION {[1..n -> HitProfiles] : n \in 0..MaxHits} :
                    \A i \in 1..(Len(s) - 1) : s[i].score >= s[i + 1].score}}

RankTopKs == {NoneInt, 1, 2}

\* RetrievalEngine.retrieve_memories: ask the index for top_k * 2 hits,
\* re-rank what it answers, keep the first top_k
RetrieveOnPool ==
    /\ ~rank.done
    /\ LET fetch == FetchCount(EffectiveTopK(rank.top_k))
           received == Take(rank.pool, fetch)
       IN  rank' = [rank EXCEPT !.fetch = fetch, !.received = received,
                                !.result = RankHits(received, rank.top_k, Now),
                                !.done = TRUE]
    /\ UNCHANGED <<storeVars, jobVars>>

----------------------------------------------------------------------------
(* Job queue and worker (engram/workers) *)

\* worker processes listening on the maintenance queue
NumWorkers == 2

Workers == 1..NumWorkers

JobTypes == {"consolidation", "forgetting"}

NoJob == 0

IdleWorker == [job |-> NoJob, pc |-> "idle"]

\* QueueManager.enqueue_maintenance_job: a PENDING row, then the RQ enqueue
EnqueueMaintenanceJob(tenant, user, job_type) ==
    /\ Len(jobs) < MaxJobs
    /\ jobs' = Append(jobs, [tenant |-> tenant, user |-> user,
                             job_type |-> job_type, status |-> "pending"])
    /\ queue' = Append(queue, Len(jobs) + 1)
    /\ UNCHANGED <<running, storeVars, rank>>

\* QueueManager.update_job_status
UpdateJobStatus(js, job_id, status) == [js EXCEPT ![job_id].status = status]

\* an idle RQ worker takes the job at the head of the queue
Dequeue(w) ==
    /\ running[w].pc = "idle"
    /\ queue # <<>>
    /\ running' = [running EXCEPT ![w] = [job |-> Head(queue), pc |-> "start"]]
    /\ queue' = Tail(queue)
    /\ UNCHANGED <<jobs, storeVars, rank>>

\* process_maintenance_job: status RUNNING, then the job row is loaded
StartJob(w) ==
    /\ running[w].pc = "start"
    /\ jobs' = UpdateJobStatus(jobs, running[w].job, "running")
    /\ running' = [running EXCEPT ![w].pc = "engine"]
    /\ UNCHANGED <<queue, storeVars, rank>>

\* process_maintenance_job, CONSOLIDATION: ConsolidationEngine() is built
\* without its retrieval engine, which raises; the handler marks the job FAILED
RunConsolidationJob(w) ==
    /\ running[w].pc = "engine"
    /\ jobs[running[w].job].job_type = "consolidation"
    /\ jobs' = UpdateJobStatus(jobs, running[w].job, "failed")
    /\ running' = [running EXCEPT ![w] = IdleWorker]
    /\ UNCHANGED <<queue, storeVars, rank>>

\* process_maintenance_job, FORGETTING: forget_user_memories(tenant, user)
RunForgettingJob(w) ==
    /\ running[w].pc = "engine"
    /\ jobs[running[w].job].job_type = "forgetting"
    /\ ForgetUserMemories(jobs[running[w].job].tenant, jobs[running[w].job].user)
    /\ running' = [running EXCEPT ![w].pc = "finish"]
    /\ UNCHANGED <<jobs, queue, rank>>

\* process_maintenance_job: status COMPLETED with the engine's result
FinishJob(w) ==
    /\ running[w].pc = "finish"
    /\ jobs' = UpdateJobStatus(jobs, running[w].job, "completed")
    /\ running' = [running EXCEPT ![w] = IdleWorker]
    /\ UNCHANGED <<queue, storeVars, rank>>

----------------------------------------------------------------------------
(* Specifications *)

StoreInit ==
    /\ mem = <<>>
    /\ vindex = <<>>
    /\ clk = 1
    /\ last = Idle

JobsInit ==
    /\ jobs = <<>>
    /\ queue = <<>>
    /\ running = [w \in Workers |-> IdleWorker]

Reverse(s) == [i \in 1..Len(s) |-> s[Len(s) + 1 - i]]

\* internal orders of the index: insertion order or its reverse
Orders(S) == {SortIds(SetToSeq(S)), Reverse(SortIds(SetToSeq(S)))}

\* ids of the rows of a namespace
MemIn(tenant, user) ==
    {id \in DOMAIN mem : mem[id].tenant = tenant /\ mem[id].user = user}

(* Lifecycle of the memories: upserts, retrievals, consolidation,          *)
(* forgetting sweeps and the passing of time, in any order.                *)

TopKs == {1, 2}

\* retention_days passed to forget_old_memories: the configured default, a
\* cutoff equal to now, and a period longer than the clock runs
RetentionChoices == {NoneInt, 0, memory_retention_days + 1}

\* namespace and importance of the memories upserted
UpsertInputs == {<<<<1, 1>>, 10>>, <<<<1, 1>>, 50>>, <<<<1, 2>>, 10>>}

UpsertVecs == {1}

Init ==
    /\ StoreInit
    /\ rank = RankIdle
    /\ JobsInit

Next ==
    \/ \E inp \in UpsertInputs, vec \in UpsertVecs :
            /\ Cardinality(DOMAIN mem) < MaxMem
            /\ UpsertMemories(inp[1][1], inp[1][2], inp[2], vec)
            /\ UNCHANGED <<rank, jobVars>>
    \/ \E ns \in Namespaces, q \in UpsertVecs, top_k \in TopKs :
            /\ RetrieveMemories(ns[1], ns[2], q, top_k, SortIds(SetToSeq(DOMAIN vindex)))
            /\ UNCHANGED <<rank, jobVars>>
    \/ \E ns \in Namespaces :
            /\ Consolidate(ns[1], ns[2], SortIds(SetToSeq(MemIn(ns[1], ns[2]))), FALSE,
                           SortIds(SetToSeq(DOMAIN vindex)))
            /\ UNCHANGED <<rank, jobVars>>
    \/ \E tenant \in Tenants, user \in Users \cup {NoneInt} :
            /\ ForgetUserMemories(tenant, user)
            /\ UNCHANGED <<rank, jobVars>>
    \/ \E ns \in Namespaces, retention_days \in RetentionChoices :
            /\ ForgetOldMemories(ns[1], ns[2], retention_days)
            /\ UNCHANGED <<rank, jobVars>>
    \/ Tick /\ UNCHANGED <<rank, jobVars>>

Spec == Init /\ [][Next]_vars

(* The store alone: upserts, retrievals and deletes of single memories.    *)

InitStore ==
    /\ StoreInit
    /\ rank = RankIdle
    /\ JobsInit

NextStore ==
    \/ \E inp \in UpsertInputs, vec \in UpsertVecs :
            /\ Cardinality(DOMAIN mem) < MaxMem
            /\ UpsertMemories(inp[1][1], inp[1][2], inp[2], vec)
            /\ UNCHANGED <<rank, jobVars>>
    \/ \E ns \in Namespaces, q \in UpsertVecs, top_k \in TopKs, order \in Orders(DOMAIN vindex) :
            /\ RetrieveMemories(ns[1], ns[2], q, top_k, order)
            /\ UNCHANGED <<rank, jobVars>>
    \/ \E ns \in Namespaces, id \in DOMAIN mem :
            /\ DeleteMemory(id, ns[1], ns[2])
            /\ UNCHANGED <<rank, jobVars>>
    \/ \E ns \in Namespaces :
            /\ AnalyzeMemoryHealth(ns[1], ns[2])
            /\ UNCHANGED <<rank, jobVars>>
    \/ \E inp \in UpsertInputs, vec \in UpsertVecs, fault \in {"repository", "index"} :
            /\ Cardinality(DOMAIN mem) < MaxMem
            /\ UpsertMemoriesFault(inp[1][1], inp[1][2], inp[2], vec, fault)
            /\ UNCHANGED <<rank, jobVars>>
    \/ \E ns \in Namespaces :
            /\ ForgetUserMemories(ns[1], ns[2])
            /\ UNCHANGED <<rank, jobVars>>
    \/ Tick /\ UNCHANGED <<rank, jobVars>>

SpecStore == InitStore /\ [][NextStore]_vars

(* Consolidation runs: memories of one namespace are upserted, one         *)
(* consolidation runs over some of them, and a non-dry run is repeated     *)
(* with the same candidates.                                               *)

\* the candidate lists a caller passes: some of the rows, by id or reversed
CandidateLists(S) == UNION {Orders(T) : T \in SUBSET S}

\* the namespace the runs are made for
ConsNamespace == <<1, 1>>

InitCons ==
    /\ StoreInit
    /\ rank = RankIdle
    /\ JobsInit

NextCons ==
    \/ \E vec \in Vecs :
            /\ last.op \in {"none", "upsert"}
            /\ Cardinality(DOMAIN mem) < MaxCons
            /\ UpsertMemories(ConsNamespace[1], ConsNamespace[2], default_importance, vec)
            /\ UNCHANGED <<rank, jobVars>>
    \/ \E cand \in CandidateLists(MemIn(ConsNamespace[1], ConsNamespace[2])), dry_run \in BOOLEAN,
          order \in Orders(DOMAIN vindex) :
            /\ last.op = "upsert"
            /\ Consolidate(ConsNamespace[1], ConsNamespace[2], cand, dry_run, order)
            /\ UNCHANGED <<rank, jobVars>>
    \/ \E order \in Orders(DOMAIN vindex) :
            /\ last.op = "consolidate"
            /\ ~last.dry_run
            /\ ~last.repeat
            /\ Consolidate(ConsNamespace[1], ConsNamespace[2], last.cand, FALSE, order)
            /\ UNCHANGED <<rank, jobVars>>

SpecCons == InitCons /\ [][NextCons]_vars

(* Ranking: the index answers a query with some pool of hits; one          *)
(* retrieval ranks it.                                                     *)

InitRank ==
    /\ mem = <<>>
    /\ vindex = <<>>
    /\ clk = Len(TimePoints)
    /\ last = Idle
    /\ \E pool \in Pools, top_k \in RankTopKs :
            rank = [RankIdle EXCEPT !.pool = pool, !.top_k = top_k]
    /\ JobsInit

NextRank == RetrieveOnPool

SpecRank == InitRank /\ [][NextRank]_vars

(* Maintenance jobs: callers enqueue, workers dequeue and process.         *)

InitJobs ==
    /\ StoreInit
    /\ rank = RankIdle
    /\ JobsInit

NextJobs ==
    \/ \E ns \in Namespaces, job_type \in JobTypes :
            EnqueueMaintenanceJob(ns[1], ns[2], job_type)
    \/ \E w \in Workers : Dequeue(w)
    \/ \E w \in Workers : StartJob(w)
    \/ \E w \in Workers : RunConsolidationJob(w)
    \/ \E w \in Workers : RunForgettingJob(w)
    \/ \E w \in Workers : FinishJob(w)

SpecJobs == InitJobs /\ [][NextJobs]_vars

----------------------------------------------------------------------------
(* Properties of consolidation runs (SpecCons) *)

\* C1: a non-dry consolidation repeated with the same namespace and the same
\* candidates merges nothing: its merged, deleted and updated lists are empty.
C1_SecondRunEmpty ==
    (last.op = "consolidate" /\ last.repeat)
        => (last.merged = <<>> /\ last.deleted = <<>> /\ last.updated = <<>>)

\* C2: after a non-dry consolidation, in every merged cluster the target is
\* active and every other member (a source) is inactive.
C2_SourcesInactiveTargetActive ==
    (last.op = "consolidate" /\ ~last.dry_run)
        => \A k \in 1..Len(last.merged) :
                /\ mem[last.updated[k]].active
                /\ \A id \in Range(last.merged[k]) \ {last.updated[k]} : ~mem[id].active

\* C3: for every cluster a non-dry consolidation merged, the id reported in
\* updated is the lexicographically smallest id of the cluster, and deleted
\* holds exactly the remaining ids of the merged clusters, each once.
C3_TargetIsSmallestId ==
    (last.op = "consolidate" /\ ~last.dry_run)
        => /\ Len(last.updated) = Len(last.merged)
           /\ \A k \in 1..Len(last.merged) :
                /\ last.updated[k] \in Range(last.merged[k])
                /\ \A id \in Range(last.merged[k]) :
                        id = last.updated[k] \/ LexLess(last.updated[k], id)
           /\ Range(last.deleted) =
                UNION {Range(last.merged[k]) \ {last.updated[k]} : k \in 1..Len(last.merged)}
           /\ Cardinality(Range(last.deleted)) = Len(last.deleted)

\* two clusters merged, the first one discovered from a seed that is not its
\* smallest id
C3_Witness ==
    /\ last.op = "consolidate"
    /\ ~last.dry_run
    /\ Len(last.merged) = 2
    /\ last.cand[1] \in Range(last.merged[1])
    /\ last.cand[1] # last.updated[1]
    /\ Len(last.merged[1]) + Len(last.merged[2]) = Len(last.deleted) + 2

----------------------------------------------------------------------------
(* Properties of the lifecycle (Spec) *)

\* C4: a low-value sweep of a namespace deactivates exactly the rows that
\* belong to the namespace, are active, have importance below
\* importance_threshold and were last accessed more than forgetting_days
\* before now; low importance alone or staleness alone is not enough.
C4_ForgetLowValueExact ==
    [][\A tenant \in Tenants, user \in Users :
            ForgetUserMemories(tenant, user)
                => \A id \in DOMAIN mem :
                        (mem[id].active /\ ~mem'[id].active)
                            <=> /\ mem[id].tenant = tenant
                                /\ mem[id].user = user
                                /\ mem[id].active
                                /\ mem[id].importance < importance_threshold
                                /\ Now - mem[id].last_accessed_at
                                        > forgetting_days * TicksPerDay]_vars

\* a sweep forgot a row while a row of the same namespace with exactly one
\* of the two conditions stays active
C4_Witness ==
    /\ last.op = "forget_user"
    /\ last.out # <<>>
    /\ \E id \in DOMAIN mem :
            /\ mem[id].tenant = mem[last.out[1]].tenant
            /\ mem[id].user = mem[last.out[1]].user
            /\ mem[id].active
            /\ (mem[id].importance < importance_threshold)
                    # (Now - mem[id].last_accessed_at > forgetting_days * TicksPerDay)

\* C5: no operation removes a row, and no operation turns an inactive row
\* active again.
C5_NoRemovalNoReactivation ==
    [][\A id \in DOMAIN mem :
            /\ id \in DOMAIN mem'
            /\ (~mem[id].active => ~mem'[id].active)]_vars

\* a retrieval has returned a memory of a namespace that also holds a
\* forgotten row whose vector is still indexed
C5_Witness ==
    /\ last.op = "retrieve"
    /\ last.out # <<>>
    /\ \E id \in DOMAIN mem :
            /\ ~mem[id].active
            /\ id \in DOMAIN vindex
            /\ mem[id].tenant = mem[last.out[1]].tenant
            /\ mem[id].user = mem[last.out[1]].user

\* C6: a forgetting sweep changes nothing but the active flag; every other
\* stored field of every row is the same before and after.
C6_OnlyActiveChanges ==
    [][(\E tenant \in Tenants, user \in Users \cup {NoneInt}, retention_days \in RetentionChoices :
            \/ ForgetUserMemories(tenant, user)
            \/ ForgetOldMemories(tenant, user, retention_days))
        => /\ DOMAIN mem' = DOMAIN mem
           /\ \A id \in DOMAIN mem :
                [mem'[id] EXCEPT !.active = mem[id].active] = mem[id]]_vars

\* C6, amended: a forgetting sweep changes only the active flag and
\* updated_at, and those only on the rows it deactivates; every other field,
\* and every other row, is the same before and after.
C6_OnlyActiveAndUpdatedAtChange ==
    [][(\E tenant \in Tenants, user \in Users \cup {NoneInt}, retention_days \in RetentionChoices :
            \/ ForgetUserMemories(tenant, user)
            \/ ForgetOldMemories(tenant, user, retention_days))
        => /\ DOMAIN mem' = DOMAIN mem
           /\ \A id \in DOMAIN mem :
                /\ [mem'[id] EXCEPT !.active = mem[id].active,
                                    !.updated_at = mem[id].updated_at] = mem[id]
                /\ (~(mem[id].active /\ ~mem'[id].active) => mem'[id] = mem[id])]_vars

\* a sweep has deactivated a row some time after it was created and accessed
C6_Witness ==
    /\ last.op \in {"forget_user", "forget_old"}
    /\ \E id \in Range(last.out) :
            /\ ~mem[id].active
            /\ mem[id].updated_at = Now
            /\ mem[id].created_at < Now
            /\ mem[id].last_accessed_at < Now

\* C7: a retrieval, consolidation or forgetting call for one namespace
\* changes no row and no vector of another namespace.
C7_NamespaceScoped ==
    [][\A ns \in Namespaces :
            (\/ \E q \in UpsertVecs, top_k \in TopKs :
                    RetrieveMemories(ns[1], ns[2], q, top_k, SortIds(SetToSeq(DOMAIN vindex)))
             \/ Consolidate(ns[1], ns[2], SortIds(SetToSeq(MemIn(ns[1], ns[2]))), FALSE,
                            SortIds(SetToSeq(DOMAIN vindex)))
             \/ ForgetUserMemories(ns[1], ns[2])
             \/ \E retention_days \in RetentionChoices :
                    ForgetOldMemories(ns[1], ns[2], retention_days))
            => \A id \in DOMAIN mem :
                    (mem[id].tenant # ns[1] \/ mem[id].user # ns[2])
                        => /\ id \in DOMAIN mem'
                           /\ mem'[id] = mem[id]
                           /\ (id \in DOMAIN vindex
                                    => id \in DOMAIN vindex' /\ vindex'[id] = vindex[id])]_vars

\* C8: a row that is inactive is not among the memories a retrieval returns
\* and not in any cluster a consolidation reports.
C8_InactiveNeverReturned ==
    /\ last.op = "retrieve" => \A id \in Range(last.out) : mem[id].active
    /\ last.op = "consolidate"
            => \A k \in 1..Len(last.merged) : \A id \in Range(last.merged[k]) : mem[id].active

----------------------------------------------------------------------------
(* Properties of ranking (SpecRank) *)

\* C10: for top_k >= 1 a retrieval asks the index for 2 * top_k hits and
\* returns the first min(top_k, n) of the n hits received, sorted by
\* descending composite score: at most top_k results, in non-increasing
\* score order, and no hit left out scores strictly higher than a returned one.
C10_RankTopK ==
    (rank.done /\ rank.top_k >= 1)
        => /\ rank.fetch = 2 * rank.top_k
           /\ Len(rank.received) = Min(Len(rank.pool), 2 * rank.top_k)
           /\ Len(rank.result) = Min(rank.top_k, Len(rank.received))
           /\ \A i \in 1..(Len(rank.result) - 1) :
                    rank.result[i].score >= rank.result[i + 1].score
           /\ \A i \in 1..Len(rank.result) :
                    \E j \in 1..Len(rank.received) :
                        /\ rank.received[j].id = rank.result[i].id
                        /\ rank.result[i].score
                                = Clamp(CompositeScore(rank.received[j], Now), 0, 1000000)
           /\ \A i, j \in 1..Len(rank.result) :
                    rank.result[i].id = rank.result[j].id => i = j
           /\ \A j \in 1..Len(rank.received) :
                    (\A i \in 1..Len(rank.result) : rank.result[i].id # rank.received[j].id)
                        => \A i \in 1..Len(rank.result) :
                                Clamp(CompositeScore(rank.received[j], Now), 0, 1000000)
                                    <= rank.result[i].score

\* the index held more than it was asked for, ranking put another hit first
\* than the index did, and a received hit was left out
C10_Witness ==
    /\ rank.done
    /\ rank.top_k >= 1
    /\ Len(rank.pool) > rank.fetch
    /\ Len(rank.result) = rank.top_k
    /\ Len(rank.result) < Len(rank.received)
    /\ rank.result[1].id # rank.received[1].id

----------------------------------------------------------------------------
(* Properties of the job queue (SpecJobs) *)

\* C9: no two maintenance jobs of the same tenant and user are being
\* processed by workers at the same time.
C9_OneRunPerNamespace ==
    \A w1, w2 \in Workers :
        (/\ w1 # w2
         /\ running[w1].job # NoJob
         /\ running[w2].job # NoJob
         /\ jobs[running[w1].job].status = "running"
         /\ jobs[running[w2].job].status = "running")
            => \/ jobs[running[w1].job].tenant # jobs[running[w2].job].tenant
               \/ jobs[running[w1].job].user # jobs[running[w2].job].user

\* C11: every hit ranking produces has a score in [0, 1] (0..1000000
\* millionths), also for similarity, importance and decay weight beyond
\* their legal ranges and timestamps 1000 days old.
C11_ScoreBounds ==
    rank.done
        => \A i \in 1..Len(rank.result) :
                rank.result[i].score >= 0 /\ rank.result[i].score <= 1000000

\* ranking returned a hit whose unclamped sum is above 1 and one whose
\* unclamped sum is below 0
C11_Witness ==
    /\ rank.done
    /\ \E i, j \in 1..Len(rank.result) :
            /\ CompositeScore([rank.result[i] EXCEPT !.score = rank.result[i].original_score], Now)
                    > 1000000
            /\ rank.result[i].original_score > 100
            /\ CompositeScore([rank.result[j] EXCEPT !.score = rank.result[j].original_score], Now)
                    < 0
            /\ rank.result[j].last_accessed_at <= Now - 1000 * TicksPerDay

\* C12: ranking is a stable descending sort: two hits of equal score are
\* returned in the order in which the index answered them, and a returned
\* hit was answered before every left-out hit of the same score.
C12_StableSort ==
    rank.done
        => /\ \A i, j \in 1..Len(rank.result) :
                (i < j /\ rank.result[i].score = rank.result[j].score)
                    => \E a, b \in 1..Len(rank.received) :
                            /\ a < b
                            /\ rank.received[a].id = rank.result[i].id
                            /\ rank.received[b].id = rank.result[j].id
           /\ \A i \in 1..Len(rank.result), b \in 1..Len(rank.received) :
                (/\ \A j \in 1..Len(rank.result) : rank.result[j].id # rank.received[b].id
                 /\ Clamp(CompositeScore(rank.received[b], Now), 0, 1000000)
                        = rank.result[i].score)
                    => \E a \in 1..Len(rank.received) :
                            a < b /\ rank.received[a].id = rank.result[i].id

\* two hits of equal score were returned behind a hit the index had
\* answered after them
C12_Witness ==
    /\ rank.done
    /\ \E i, j \in 1..Len(rank.result) :
            /\ 1 < i
            /\ i < j
            /\ rank.result[i].score = rank.result[j].score
            /\ rank.result[i].original_score > rank.result[1].original_score

\* C13: of two hits that differ only in last_accessed_at, the more recently
\* accessed one is never placed after the other in the result, whichever of
\* the two the index answered first.
C13_RecentNeverAfter ==
    rank.done
        => \A a, b \in 1..Len(rank.received) :
                (/\ rank.received[a].score = rank.received[b].score
                 /\ rank.received[a].importance = rank.received[b].importance
                 /\ rank.received[a].decay_weight = rank.received[b].decay_weight
                 /\ rank.received[a].created_at = rank.received[b].created_at
                 /\ rank.received[a].last_accessed_at # NoneInt
                 /\ rank.received[b].last_accessed_at # NoneInt
                 /\ rank.received[a].last_accessed_at > rank.received[b].last_accessed_at)
                    => \A j \in 1..Len(rank.result) :
                            rank.result[j].id = rank.received[b].id
                                => \E i \in 1..Len(rank.result) :
                                        i < j /\ rank.result[i].id = rank.received[a].id

\* C13, amended: of two hits that differ only in last_accessed_at, the more
\* recently accessed one never has the lower score, and it is placed before
\* the other whenever its score is strictly higher; with equal scores (both
\* clamped, or equal boosts) the order of the index is kept.
C13_RecentNotLowerScore ==
    rank.done
        => \A a, b \in 1..Len(rank.received) :
                (/\ rank.received[a].score = rank.received[b].score
                 /\ rank.received[a].importance = rank.received[b].importance
                 /\ rank.received[a].decay_weight = rank.received[b].decay_weight
                 /\ rank.received[a].created_at = rank.received[b].created_at
                 /\ rank.received[a].last_accessed_at # NoneInt
                 /\ rank.received[b].last_accessed_at # NoneInt
                 /\ rank.received[a].last_accessed_at > rank.received[b].last_accessed_at)
                    => /\ Clamp(CompositeScore(rank.received[a], Now), 0, 1000000)
                            >= Clamp(CompositeScore(rank.received[b], Now), 0, 1000000)
                       /\ (Clamp(CompositeScore(rank.received[a], Now), 0, 1000000)
                            > Clamp(CompositeScore(rank.received[b], Now), 0, 1000000))
                            => \A j \in 1..Len(rank.result) :
                                    rank.result[j].id = rank.received[b].id
                                        => \E i \in 1..Len(rank.result) :
                                                i < j /\ rank.result[i].id = rank.received[a].id

\* the index answered the older access first and ranking returned the more
\* recently accessed twin before it
C13_Witness ==
    /\ rank.done
    /\ \E a, b \in 1..Len(rank.received) :
            /\ b < a
            /\ rank.received[a].score = rank.received[b].score
            /\ rank.received[a].importance = rank.received[b].importance
            /\ rank.received[a].decay_weight = rank.received[b].decay_weight
            /\ rank.received[a].created_at = rank.received[b].created_at
            /\ rank.received[b].last_accessed_at # NoneInt
            /\ rank.received[a].last_accessed_at > rank.received[b].last_accessed_at
            /\ \E i, j \in 1..Len(rank.result) :
                    /\ i < j
                    /\ rank.result[i].id = rank.received[a].id
                    /\ rank.result[j].id = rank.received[b].id

----------------------------------------------------------------------------
(* Properties of retrieval in the lifecycle (Spec) *)

\* C14: a retrieval sets last_accessed_at on exactly the rows it returns;
\* rows fetched but not returned keep theirs, and no other field of any row
\* changes.
C14_TouchOnlyLastAccessed ==
    [][\A ns \in Namespaces, q \in UpsertVecs, top_k \in TopKs :
            RetrieveMemories(ns[1], ns[2], q, top_k, SortIds(SetToSeq(DOMAIN vindex)))
                => /\ DOMAIN mem' = DOMAIN mem
                   /\ \A id \in DOMAIN mem :
                        IF id \in Range(last'.out)
                        THEN mem'[id] = [mem[id] EXCEPT !.last_accessed_at = Now]
                        ELSE mem'[id] = mem[id]]_vars

\* C14, amended: a retrieval sets last_accessed_at, and with it updated_at,
\* on exactly the rows it returns; rows fetched but not returned keep
\* theirs, and no other field of any row changes.
C14_TouchLastAccessedAndUpdatedAt ==
    [][\A ns \in Namespaces, q \in UpsertVecs, top_k \in TopKs :
            RetrieveMemories(ns[1], ns[2], q, top_k, SortIds(SetToSeq(DOMAIN vindex)))
                => /\ DOMAIN mem' = DOMAIN mem
                   /\ \A id \in DOMAIN mem :
                        IF id \in Range(last'.out)
                        THEN mem'[id] = [mem[id] EXCEPT !.last_accessed_at = Now,
                                                        !.updated_at = Now]
                        ELSE mem'[id] = mem[id]]_vars

\* a retrieval returned one memory, touched some time after its creation,
\* and left out an active memory of the same namespace, which was not touched
C14_Witness ==
    /\ last.op = "retrieve"
    /\ Len(last.out) = 1
    /\ mem[last.out[1]].last_accessed_at = Now
    /\ mem[last.out[1]].created_at < Now
    /\ \E id \in DOMAIN mem :
            /\ id # last.out[1]
            /\ mem[id].tenant = mem[last.out[1]].tenant
            /\ mem[id].user = mem[last.out[1]].user
            /\ mem[id].active
            /\ id \in DOMAIN vindex
            /\ mem[id].last_accessed_at < Now

----------------------------------------------------------------------------
(* Collaborator failures: the vector index, the repository or the          *)
(* embedding provider raises during a call, or a merge fails.              *)

\* memories upserted before the failing calls
MaxErr == 4

\* embeddings of those memories: equal ones cluster, different ones do not
ErrVecs == {1, 3}

\* MemoryStore.retrieve_memories when the collaborator `fault` raises: the
\* index inside RetrievalEngine.retrieve_memories, or the repository query;
\* both handlers re-raise as ValueError, nothing is committed
RetrieveMemoriesFault(tenant, user, q, top_k, fault) ==
    /\ fault \in {"index", "repository"}
    /\ last' = [Idle EXCEPT !.op = "retrieve", !.fault = <<fault, 0>>, !.error = TRUE]
    /\ UNCHANGED <<mem, vindex, clk>>

\* limit of the repository read of RetrievalEngine.retrieve
HybridLimit(top_k) == top_k * 3

\* MemoryStore.get_memories: the active rows of the namespace, newest first;
\* order is the order in which the database lists rows of equal created_at
GetMemories(m, order, tenant, user, limit) ==
    LET ids == FilterIn(order, {id \in DOMAIN m : /\ m[id].tenant = tenant
                                                  /\ m[id].user = user
                                                  /\ m[id].active})
        rows == NearestFirst([i \in 1..Len(ids) |->
                                [id |-> ids[i], score |-> m[ids[i]].created_at]])
    IN  Take(IdsOf(rows), limit)

\* RetrievalEngine.retrieve: repository read, cosine similarities, stable
\* sort, top_k; any exception is logged and [] is returned.  A failing
\* repository read is already turned into [] by get_memories.
HybridRetrieve(tenant, user, q, top_k, order, fault) ==
    /\ fault \in {"none", "embedding", "repository"}
    /\ LET memories == GetMemories(mem, order, tenant, user, HybridLimit(top_k))
           similarities == NearestFirst([i \in 1..Len(memories) |->
                                [id |-> memories[i], score |-> Sim(q, mem[memories[i]].vec)]])
       IN  last' = [Idle EXCEPT !.op = "hybrid_retrieve",
                                !.fault = <<fault, 0>>,
                                !.out = IF fault = "none"
                                        THEN Take(IdsOf(similarities), top_k)
                                        ELSE <<>>]
    /\ UNCHANGED <<mem, vindex, clk>>

\* a run that swallows the failed lookup
ConsolidateWithFaultsSwallowed(tenant, user, cand, dry_run, order, fail_lookup, fail_merge) ==
    LET vecOf == [id \in Range(cand) |-> mem[id].vec]
        r == IF cand = <<>> THEN EmptyResult
             ELSE MergeClustersFaulty(FindMemoryClusters(cand, vecOf, vindex, order, tenant, user),
                                      dry_run, fail_merge, EmptyResult)
    IN  /\ fail_lookup = 0 \/ fail_merge = 0
        /\ last' = [Idle EXCEPT !.op = "consolidate",
                                !.cand = cand, !.dry_run = dry_run,
                                !.fault = IF fail_lookup # 0 THEN <<"lookup", fail_lookup>>
                                          ELSE IF fail_merge # 0 THEN <<"merge", fail_merge>>
                                          ELSE <<"none", 0>>,
                                !.merged = r.merged, !.deleted = r.deleted,
                                !.updated = r.updated]
        /\ UNCHANGED <<mem, vindex, clk>>

\* ConsolidationEngine.consolidate_memories when the index raises on the
\* lookup for candidate number fail_lookup, or _merge_memory_content fails
\* for the fail_merge-th cluster merged (0: no such failure)
ConsolidateWithFaults(tenant, user, cand, dry_run, order, fail_lookup, fail_merge) ==
    LET vecOf == [id \in Range(cand) |-> mem[id].vec]
        raised == /\ cand # <<>>
                  /\ fail_lookup \in LookupsMade(cand, vecOf, vindex, order, tenant, user, 1, {})
        r == IF cand = <<>> \/ raised THEN EmptyResult
             ELSE MergeClustersFaulty(FindMemoryClusters(cand, vecOf, vindex, order, tenant, user),
                                      dry_run, fail_merge, EmptyResult)
    IN  /\ fail_lookup = 0 \/ fail_merge = 0
        /\ last' = [Idle EXCEPT !.op = "consolidate",
                                !.cand = cand, !.dry_run = dry_run,
                                !.fault = IF fail_lookup # 0 THEN <<"lookup", fail_lookup>>
                                          ELSE IF fail_merge # 0 THEN <<"merge", fail_merge>>
                                          ELSE <<"none", 0>>,
                                !.error = raised,
                                !.merged = r.merged, !.deleted = r.deleted,
                                !.updated = r.updated]
        /\ UNCHANGED <<mem, vindex, clk>>

InitErr ==
    /\ StoreInit
    /\ rank = RankIdle
    /\ JobsInit

NextErr ==
    \/ \E vec \in ErrVecs :
            /\ last.op \in {"none", "upsert"}
            /\ Cardinality(DOMAIN mem) < MaxErr
            /\ UpsertMemories(ConsNamespace[1], ConsNamespace[2], default_importance, vec)
            /\ UNCHANGED <<rank, jobVars>>
    \/ \E q \in UpsertVecs, top_k \in TopKs, fault \in {"index", "repository"} :
            /\ RetrieveMemoriesFault(ConsNamespace[1], ConsNamespace[2], q, top_k, fault)
            /\ UNCHANGED <<rank, jobVars>>
    \/ \E q \in UpsertVecs, top_k \in TopKs, order \in Orders(DOMAIN mem),
          fault \in {"none", "embedding", "repository"} :
            /\ HybridRetrieve(ConsNamespace[1], ConsNamespace[2], q, top_k, order, fault)
            /\ UNCHANGED <<rank, jobVars>>
    \/ \E dry_run \in BOOLEAN, fail_lookup \in 0..Cardinality(DOMAIN mem), fail_merge \in 0..2 :
            /\ ConsolidateWithFaults(ConsNamespace[1], ConsNamespace[2],
                                     SortIds(SetToSeq(MemIn(ConsNamespace[1], ConsNamespace[2]))),
                                     dry_run, SortIds(SetToSeq(DOMAIN vindex)),
                                     fail_lookup, fail_merge)
            /\ UNCHANGED <<rank, jobVars>>

SpecErr == InitErr /\ [][NextErr]_vars

\* C15: when the index, the repository or the embedding provider fails
\* during a retrieval, the retrieval raises to its caller; no retrieval
\* entry point returns a result list in place of the failure.
C15_RetrievalFailsWholesale ==
    (last.op \in {"retrieve", "hybrid_retrieve"} /\ last.fault[1] # "none")
        => last.error

\* C16: a consolidation in which a similarity lookup fails raises to its
\* caller, returns no result and changes no record and no vector.
C16_LookupFailureAborts ==
    [][(/\ last'.op = "consolidate"
        /\ last'.fault[1] = "lookup"
        /\ last'.fault[2] \in LookupsMade(last'.cand,
                                          [id \in Range(last'.cand) |-> mem[id].vec],
                                          vindex, SortIds(SetToSeq(DOMAIN vindex)),
                                          ConsNamespace[1], ConsNamespace[2], 1, {}))
        => /\ last'.error
           /\ last'.merged = <<>> /\ last'.deleted = <<>> /\ last'.updated = <<>>
           /\ mem' = mem
           /\ vindex' = vindex]_vars

\* the third lookup of a run over four memories failed, after the first
\* candidate's cluster had been discovered
C16_Witness ==
    /\ last.op = "consolidate"
    /\ ~last.dry_run
    /\ last.fault = <<"lookup", 3>>
    /\ last.error
    /\ Len(last.cand) = 4
    /\ FindMemoryClusters(last.cand, [id \in Range(last.cand) |-> mem[id].vec],
                          vindex, SortIds(SetToSeq(DOMAIN vindex)),
                          ConsNamespace[1], ConsNamespace[2]) # <<>>

\* C17: when the merge of one cluster fails in a non-dry consolidation, the
\* run returns normally, that cluster is in none of merged, deleted and
\* updated and its members stay active, and every other cluster is reported.
C17_FailedMergeSkipped ==
    (last.op = "consolidate" /\ ~last.dry_run /\ last.fault[1] = "merge")
        => LET clusters == FindMemoryClusters(last.cand,
                                [id \in Range(last.cand) |-> mem[id].vec],
                                vindex, SortIds(SetToSeq(DOMAIN vindex)),
                                ConsNamespace[1], ConsNamespace[2])
               k == last.fault[2]
               others == {j \in 1..Len(clusters) : j # k}
           IN  /\ ~last.error
               /\ Len(last.merged) = Cardinality(others)
               /\ \A i \in 1..Len(last.merged) :
                      last.merged[i] = SortIds(clusters[IF i < k THEN i ELSE i + 1])
               /\ Range(last.deleted) =
                      UNION {Range(Tail(SortIds(clusters[j]))) : j \in others}
               /\ Range(last.updated) = {SortIds(clusters[j])[1] : j \in others}
               /\ k <= Len(clusters)
                      => \A id \in Range(clusters[k]) :
                              /\ mem[id].active
                              /\ id \notin Range(last.deleted) \cup Range(last.updated)

\* the merge of the first of two clusters failed and the second was reported
C17_Witness ==
    /\ last.op = "consolidate"
    /\ ~last.dry_run
    /\ last.fault = <<"merge", 1>>
    /\ ~last.error
    /\ Len(last.merged) = 1
    /\ Len(last.deleted) = 1
    /\ Len(FindMemoryClusters(last.cand, [id \in Range(last.cand) |-> mem[id].vec],
                              vindex, SortIds(SetToSeq(DOMAIN vindex)),
                              ConsNamespace[1], ConsNamespace[2])) = 2

\* C18: a dry consolidation reports every discovered cluster, oldest id
\* first, in merged, returns empty deleted and updated lists and changes no
\* record and no vector.
C18_DryRunOnlyReports ==
    [][(last'.op = "consolidate" /\ last'.dry_run)
        => /\ \E order \in Orders(DOMAIN vindex) :
                LET clusters == FindMemoryClusters(last'.cand,
                                    [id \in Range(last'.cand) |-> mem[id].vec],
                                    vindex, order, ConsNamespace[1], ConsNamespace[2])
                IN  last'.merged = [i \in 1..Len(clusters) |-> SortIds(clusters[i])]
           /\ last'.deleted = <<>>
           /\ last'.updated = <<>>
           /\ mem' = mem
           /\ vindex' = vindex]_vars

\* a dry consolidation reported a cluster of at least two memories, all of
\* them still active
C18_Witness ==
    /\ last.op = "consolidate"
    /\ last.dry_run
    /\ \E i \in 1..Len(last.merged) :
            /\ Len(last.merged[i]) >= 2
            /\ \A id \in Range(last.merged[i]) : mem[id].active

----------------------------------------------------------------------------
(* Properties of the retention sweep and of repeated sweeps (Spec) *)

\* C19: a retention sweep of a namespace deactivates every active row of the
\* namespace created before now - retention_days, whatever its importance
\* and its last access, and deactivates no row created at or after that
\* cutoff.
C19_ForgetOldExact ==
    [][\A ns \in Namespaces, retention_days \in RetentionChoices :
            ForgetOldMemories(ns[1], ns[2], retention_days)
                => LET days == IF retention_days = NoneInt THEN memory_retention_days
                               ELSE retention_days
                   IN  \A id \in DOMAIN mem :
                            /\ (/\ mem[id].tenant = ns[1]
                                /\ mem[id].user = ns[2]
                                /\ mem[id].active
                                /\ mem[id].created_at < Now - days * TicksPerDay)
                                    => ~mem'[id].active
                            /\ (mem[id].active /\ ~mem'[id].active)
                                    => mem[id].created_at < Now - days * TicksPerDay]_vars

\* a retention sweep forgot an important, recently accessed row and left
\* active a row of the same tenant that was created after the cutoff
C19_Witness ==
    /\ last.op = "forget_old"
    /\ \E id \in Range(last.out) :
            /\ mem[id].importance >= importance_threshold
            /\ Now - mem[id].last_accessed_at <= forgetting_days * TicksPerDay
            /\ \E other \in DOMAIN mem :
                    /\ mem[other].tenant = mem[id].tenant
                    /\ mem[other].active
                    /\ mem[other].created_at = Now

\* C20: a forgetting sweep run again with the same arguments at the same
\* instant, right after the first run, deactivates no row and reports no
\* forgotten memory.
C20_SweepIdempotent ==
    [][(last'.op \in {"forget_user", "forget_old"} /\ last'.repeat)
        => /\ last'.out = <<>>
           /\ \A id \in DOMAIN mem :
                   /\ id \in DOMAIN mem'
                   /\ mem'[id].active = mem[id].active]_vars

\* a low-value sweep was repeated at the instant at which a sweep had
\* deactivated a row of its tenant
C20_Witness ==
    /\ last.op = "forget_user"
    /\ last.repeat
    /\ last.out = <<>>
    /\ \E id \in DOMAIN mem :
            /\ ~mem[id].active
            /\ mem[id].updated_at = Now
            /\ mem[id].tenant = last.args[1]
            /\ mem[id].importance < importance_threshold
            /\ (last.args[2] # NoneInt => mem[id].user = last.args[2])

----------------------------------------------------------------------------
(* Near-duplicates end to end: upserts into one namespace, one non-dry     *)
(* consolidation of all its memories, then ranked retrievals.              *)

\* memories upserted before the consolidation
MaxScen == 4

\* embeddings 4, 5 and 6 are pairwise near-duplicates; 7 is unrelated
NearDuplicateVecs == {4, 5, 6}

ScenarioVecs == NearDuplicateVecs \cup {7}

\* top_k of the retrievals that follow the consolidation
ScenarioTopKs == {1, 4}

InitScen ==
    /\ StoreInit
    /\ rank = RankIdle
    /\ JobsInit

NextScen ==
    \/ \E vec \in ScenarioVecs :
            /\ last.op \in {"none", "upsert"}
            /\ Cardinality(DOMAIN mem) < MaxScen
            /\ UpsertMemories(ConsNamespace[1], ConsNamespace[2], default_importance, vec)
            /\ UNCHANGED <<rank, jobVars>>
    \/ \E order \in Orders(DOMAIN vindex) :
            /\ last.op = "upsert"
            /\ Consolidate(ConsNamespace[1], ConsNamespace[2],
                           SortIds(SetToSeq(MemIn(ConsNamespace[1], ConsNamespace[2]))),
                           FALSE, order)
            /\ UNCHANGED <<rank, jobVars>>
    \/ \E q \in NearDuplicateVecs, top_k \in ScenarioTopKs, order \in Orders(DOMAIN vindex) :
            /\ last.op \in {"consolidate", "retrieve"}
            /\ RetrieveMemories(ConsNamespace[1], ConsNamespace[2], q, top_k, order)
            /\ UNCHANGED <<rank, jobVars>>

SpecScen == InitScen /\ [][NextScen]_vars

\* C21: with three pairwise near-duplicate memories and one unrelated memory
\* in a namespace, a non-dry consolidation reports one cluster of three with
\* one updated target and two deleted sources, which are then inactive,
\* leaves the unrelated memory active, and a later retrieval for the merged
\* content with room for every memory returns exactly one of the three.
C21_NearDuplicatesCollapse ==
    LET group == {id \in DOMAIN mem : mem[id].vec \in NearDuplicateVecs}
        other == DOMAIN mem \ group
    IN  (/\ Cardinality(group) = 3
         /\ {mem[id].vec : id \in group} = NearDuplicateVecs
         /\ Cardinality(other) = 1)
            => /\ last.op = "consolidate"
                    => /\ Len(last.merged) = 1
                       /\ Range(last.merged[1]) = group
                       /\ Len(last.updated) = 1
                       /\ Len(last.deleted) = 2
                       /\ \A id \in Range(last.deleted) : ~mem[id].active
                       /\ \A id \in other : mem[id].active
               /\ last.op = "retrieve"
                    => Cardinality(Range(last.out) \cap group) = 1

----------------------------------------------------------------------------
(* Similarity lookups: upserts into one namespace, then calls of           *)
(* find_similar_memories with a threshold and an excluded id.              *)

\* memories upserted before the lookups
MaxSim == 3

\* similarity_threshold arguments, in hundredths; NoneInt: not given
SimThresholds == {NoneInt, 0, 40, consolidation_threshold, 100}

\* embeddings of the memories looked up: 1 and 3 are close, 7 is far from both
SimVecs == {1, 3, 7}

\* exclude_id = None
NoExclude == <<>>

\* similarity_threshold arguments outside [0, 1]
InvalidThresholds == {-50, 150}

\* query vectors the index cannot compare with its vectors: 0 is the empty
\* vector, 9 a vector of another dimension
InvalidVecs == {0, 9}

\* RetrievalEngine.find_similar_memories as an operation: the hits returned.
\* The index is queried before the threshold is looked at.
FindSimilarMemories(tenant, user, q, threshold, exclude_id, order) ==
    /\ last' = [Idle EXCEPT !.op = "find_similar",
                            !.args = <<q, threshold, exclude_id, order>>,
                            !.queried = TRUE,
                            !.out = FindSimilar(vindex, order, q, tenant, user,
                                                threshold, exclude_id)]
    /\ UNCHANGED <<mem, vindex, clk>>

\* RetrievalEngine.find_similar_memories and RetrievalEngine.retrieve_memories
\* (op "rank") with a query vector of InvalidVecs: the vector is handed to
\* VectorIndex.query unchecked; the index raises, which the engine re-raises
\* as ValueError, or answers with no hit
QueryInvalidVector(op, tenant, user, q, arg, raises) ==
    /\ op \in {"find_similar", "rank"}
    /\ q \in InvalidVecs
    /\ last' = [Idle EXCEPT !.op = op,
                            !.args = <<q, arg, NoExclude, <<>>>>,
                            !.queried = TRUE,
                            !.error = raises]
    /\ UNCHANGED <<mem, vindex, clk>>

InitSim ==
    /\ StoreInit
    /\ rank = RankIdle
    /\ JobsInit

NextSim ==
    \/ \E vec \in SimVecs :
            /\ last.op \in {"none", "upsert"}
            /\ Cardinality(DOMAIN mem) < MaxSim
            /\ UpsertMemories(ConsNamespace[1], ConsNamespace[2], default_importance, vec)
            /\ UNCHANGED <<rank, jobVars>>
    \/ \E q \in SimVecs, threshold \in SimThresholds \cup InvalidThresholds,
          exclude_id \in {NoExclude} \cup DOMAIN vindex, order \in Orders(DOMAIN vindex) :
            /\ last.op = "upsert"
            /\ FindSimilarMemories(ConsNamespace[1], ConsNamespace[2], q, threshold,
                                   exclude_id, order)
            /\ UNCHANGED <<rank, jobVars>>
    \/ \E q \in InvalidVecs, threshold \in SimThresholds, raises \in BOOLEAN :
            /\ last.op = "upsert"
            /\ QueryInvalidVector("find_similar", ConsNamespace[1], ConsNamespace[2], q,
                                  threshold, raises)
            /\ UNCHANGED <<rank, jobVars>>
    \/ \E q \in InvalidVecs, top_k \in TopKs, raises \in BOOLEAN :
            /\ last.op = "upsert"
            /\ QueryInvalidVector("rank", ConsNamespace[1], ConsNamespace[2], q, top_k, raises)
            /\ UNCHANGED <<rank, jobVars>>

SpecSim == InitSim /\ [][NextSim]_vars

\* C22: find_similar_memories called with a threshold t between 0 and 1
\* returns exactly the hits of the index's answer whose score is at least t,
\* without the hit whose id is exclude_id, in the index's order and with the
\* index's scores.
C22_FindSimilarFiltersByThreshold ==
    (last.op = "find_similar" /\ last.args[1] \in SimVecs /\ last.args[2] \in 0..100)
        => LET answer == Query(vindex, last.args[4], last.args[1], FindSimilarTopK,
                               ConsNamespace[1], ConsNamespace[2])
               keep == {i \in 1..Len(answer) : /\ answer[i].score >= last.args[2]
                                               /\ answer[i].id # last.args[3]}
           IN  /\ Len(last.out) = Cardinality(keep)
               /\ \A i \in 1..Len(last.out) :
                      /\ last.out[i] = answer[SortIdx(keep)[i]]
                      /\ last.out[i].score = Sim(last.args[1], vindex[last.out[i].id].vec)

----------------------------------------------------------------------------
(* Further properties of consolidation runs (SpecCons) *)

\* C23: a non-dry consolidation and a run over the same candidates and the
\* same index, with the candidates processed in another order, give every
\* memory that both merge the same surviving target.
C23_SameTargetAnyOrder ==
    (last.op = "consolidate" /\ ~last.dry_run)
        => \A cand \in {last.cand, Reverse(last.cand)}, order \in Orders(DOMAIN vindex) :
              LET r == ConsolidateMemories(cand, [id \in Range(cand) |-> mem[id].vec],
                                           vindex, order, ConsNamespace[1], ConsNamespace[2],
                                           FALSE)
              IN  \A k \in 1..Len(last.merged), j \in 1..Len(r.merged) :
                      Range(last.merged[k]) \cap Range(r.merged[j]) # {}
                          => last.updated[k] = r.updated[j]

----------------------------------------------------------------------------
(* Further properties of similarity lookups (SpecSim) *)

\* C24: a ranked retrieval or a similarity lookup with an empty query
\* vector, a vector of another dimension or a threshold outside [0, 1] is
\* rejected with an error before the vector index is queried.
C24_InvalidInputRejectedBeforeIO ==
    (/\ last.op \in {"find_similar", "rank"}
     /\ \/ last.args[1] \in InvalidVecs
        \/ last.op = "find_similar" /\ last.args[2] \in InvalidThresholds)
        => (last.error /\ ~last.queried)

----------------------------------------------------------------------------
(* Properties of the memory store (SpecStore) *)

\* C25: analyze_memory_health returns, for the namespace it is asked about,
\* the numbers of active rows, of active rows with importance below
\* importance_threshold, of active rows last accessed more than
\* forgetting_days ago and of active rows created more than
\* memory_retention_days ago.
C25_HealthCounts ==
    last.op = "analyze"
        => LET rows == {id \in DOMAIN mem : /\ mem[id].tenant = last.args[1]
                                            /\ mem[id].user = last.args[2]
                                            /\ mem[id].active}
           IN  /\ ~last.error
               /\ last.out =
                    <<Cardinality(rows),
                      Cardinality({id \in rows : mem[id].importance < importance_threshold}),
                      Cardinality({id \in rows : mem[id].last_accessed_at
                                        < Now - forgetting_days * TicksPerDay}),
                      Cardinality({id \in rows : mem[id].created_at
                                        < Now - memory_retention_days * TicksPerDay})>>

----------------------------------------------------------------------------
(* Properties of cluster discovery (SpecCons) *)

\* C26: in the clusters a consolidation discovers, every cluster has at
\* least two members, every member is a candidate, every member but the
\* seed is a hit of the seed's similarity lookup at consolidation_threshold
\* with the seed excluded, and no id is in two clusters.
C26_ClustersWellFormed ==
    last.op = "consolidate"
        => /\ \A k \in 1..Len(last.merged) :
                /\ Len(last.merged[k]) >= 2
                /\ Cardinality(Range(last.merged[k])) = Len(last.merged[k])
                /\ Range(last.merged[k]) \subseteq Range(last.cand)
                /\ \E seed \in Range(last.merged[k]) :
                      LET similar_hits == FindSimilar(vindex, SortIds(SetToSeq(DOMAIN vindex)),
                                                      mem[seed].vec,
                                                      ConsNamespace[1], ConsNamespace[2],
                                                      consolidation_threshold, seed)
                      IN  /\ Range(last.merged[k]) \ {seed}
                                \subseteq {similar_hits[i].id : i \in 1..Len(similar_hits)}
                          /\ \A i \in 1..Len(similar_hits) :
                                similar_hits[i].id # seed
                                    /\ similar_hits[i].score >= consolidation_threshold
           /\ \A k, j \in 1..Len(last.merged) :
                k # j => Range(last.merged[k]) \cap Range(last.merged[j]) = {}

\* a consolidation of three candidates found one cluster of two, and the
\* third candidate's own lookup returns a member of that cluster
C26_Witness ==
    /\ last.op = "consolidate"
    /\ Len(last.cand) = 3
    /\ Len(last.merged) = 1
    /\ Len(last.merged[1]) = 2
    /\ \E id \in Range(last.cand) \ Range(last.merged[1]) :
          LET similar_hits == FindSimilar(vindex, SortIds(SetToSeq(DOMAIN vindex)),
                                          mem[id].vec, ConsNamespace[1], ConsNamespace[2],
                                          consolidation_threshold, id)
          IN  \E i \in 1..Len(similar_hits) : similar_hits[i].id \in Range(last.merged[1])

----------------------------------------------------------------------------
(* The two low-value rules side by side: a namespace of memories last      *)
(* accessed around the staleness window, on which either rule is run.      *)

\* memories in the namespace
MaxIdent == 2

\* time since the last access, in half days: forgetting_days and the two
\* half days after it
StaleAges == {forgetting_days * TicksPerDay + d : d \in 0..2}

IdentImportances == {importance_threshold - 10, importance_threshold, default_importance}

\* the namespace's rows: created at time 0, last accessed StaleAges ago
IdentRows ==
    {[tenant |-> ConsNamespace[1], user |-> ConsNamespace[2], vec |-> 1,
      importance |-> imp, active |-> TRUE, created_at |-> 0,
      last_accessed_at |-> TimePoints[Len(TimePoints)] - age,
      updated_at |-> TimePoints[Len(TimePoints)] - age] :
        imp \in IdentImportances, age \in StaleAges}

\* ConsolidationEngine.identify_forgotten_memories on the active rows of a
\* namespace at current_time = now
IdentifyForgottenMemories(tenant, user) ==
    LET memories == ActiveRows(mem, DOMAIN mem, tenant, user)
    IN  /\ last' = [Idle EXCEPT !.op = "identify",
                                !.args = <<tenant, user>>,
                                !.out = SortIds(SetToSeq(
                                            IdentifyForgottenSelect(mem, memories, Now)))]
        /\ UNCHANGED <<mem, vindex, clk>>

InitIdent ==
    /\ \E n \in 1..MaxIdent : \E rows \in [1..n -> IdentRows] :
            /\ mem = [id \in {IdPool[i] : i \in 1..n} |->
                        rows[CHOOSE i \in 1..n : IdPool[i] = id]]
            /\ vindex = [id \in {IdPool[i] : i \in 1..n} |->
                            LET r == rows[CHOOSE i \in 1..n : IdPool[i] = id]
                            IN  [tenant |-> r.tenant, user |-> r.user, vec |-> r.vec,
                                 importance |-> r.importance, created_at |-> r.created_at,
                                 last_accessed_at |-> r.created_at]]
    /\ clk = Len(TimePoints)
    /\ last = Idle
    /\ rank = RankIdle
    /\ JobsInit

NextIdent ==
    \/ /\ IdentifyForgottenMemories(ConsNamespace[1], ConsNamespace[2])
       /\ UNCHANGED <<rank, jobVars>>
    \/ /\ ForgetUserMemories(ConsNamespace[1], ConsNamespace[2])
       /\ UNCHANGED <<rank, jobVars>>

SpecIdent == InitIdent /\ [][NextIdent]_vars

\* C27: on the active rows of a namespace, identify_forgotten_memories
\* selects exactly the rows that forget_user_memories, run at the same
\* instant, deactivates.
C27_ForgetRulesAgree ==
    [][\A tenant \in Tenants, user \in Users :
            (/\ last.op = "identify"
             /\ last.args = <<tenant, user>>
             /\ ForgetUserMemories(tenant, user))
                => Range(last.out) = Range(last'.out)]_vars

----------------------------------------------------------------------------
(* Agreement of the vector index with the repository *)

\* C28: the last_accessed_at that ranking reads for a memory, the one in
\* the metadata of its vector, equals the last_accessed_at of its row.
C28_RankingReadsRepositoryAccessTime ==
    \A id \in DOMAIN vindex \cap DOMAIN mem :
        vindex[id].last_accessed_at = mem[id].last_accessed_at

\* C29: after any upserts, deletions and forgetting sweeps, including
\* upserts that raise, a memory id has a vector in the index exactly when
\* its row exists and is active.
C29_IndexAgreesWithRepository ==
    \A id \in DOMAIN vindex \cup DOMAIN mem :
        id \in DOMAIN vindex <=> (id \in DOMAIN mem /\ mem[id].active)

----------------------------------------------------------------------------
(* Further properties of the job queue (SpecJobs) *)

\* C30: a maintenance job whose worker function has ended is neither
\* PENDING nor RUNNING, and, no engine run failing here, a consolidation or
\* forgetting job that has ended is COMPLETED.
C30_EndedJobsCompleted ==
    \A j \in 1..Len(jobs) :
        (j \notin Range(queue) /\ \A w \in Workers : running[w].job # j)
            => /\ jobs[j].status \in {"completed", "failed"}
               /\ jobs[j].job_type \in {"consolidation", "forgetting"}
                    => jobs[j].status = "completed"

====
